---- MODULE Spec2Model ----
(***************************************************************************)
(* A model of slideshow.py: read_input (parsing and the vertical pairing   *)
(* loop), compute_interest, the tour model built by                        *)
(* create_optimized_slideshow (objective, degree and MTZ constraints), the *)
(* solver's terminal statuses, extract_slideshow_from_gurobi,              *)
(* analyze_transitions, write_output and main.                             *)
(*                                                                         *)
(* Slides are numbered 0..S-1 as in the code; the TLA+ sequence `photos`   *)
(* is 1-based, so slide i is photos[i+1].                                  *)
(***************************************************************************)
EXTENDS Integers, Sequences, FiniteSets, TLC

VARIABLES file, pc, photos, vertical_photos, status, x, u, current, k,
          slideshow_order, optimal_score, final_score, output

vars == <<file, pc, photos, vertical_photos, status, x, u, current, k,
          slideshow_order, optimal_score, final_score, output>>

(***************************************************************************)
(* Bounds of the model.                                                    *)
(***************************************************************************)
\* photo lines of an input file of a whole run (Spec)
MaxPhotos == 3
\* photo lines of an input file handed to read_input alone (SpecRead)
MaxRawLines == 3
\* slides of a matrix handed to extract_slideshow_from_gurobi alone (SpecExtract)
MaxS == 3
\* slides of the tour model whose constraints are explored (SpecMTZ)
MaxNodes == 4

(***************************************************************************)
(* Values that stand for "nothing yet".                                    *)
(***************************************************************************)
\* no terminal status yet
NoStatus == "None"
\* slideshow.sol does not exist
NoFile == <<>>
NoX == <<>>
NoU == <<>>

(***************************************************************************)
(* Generic helpers.                                                        *)
(***************************************************************************)
Range(s) == {s[n] : n \in 1..Len(s)}

SeqsUpTo(A, n) == UNION {[1..m -> A] : m \in 0..n}

Min2(a, b) == IF a <= b THEN a ELSE b

RECURSIVE SumOver(_, _)
\* the sum of f[e] over the elements e of the finite set D
SumOver(D, f) ==
  IF D = {} THEN 0
  ELSE LET e == CHOOSE e \in D : TRUE IN f[e] + SumOver(D \ {e}, f)

RECURSIVE InsertAsc(_, _)
InsertAsc(s, e) ==
  IF s = <<>> THEN <<e>>
  ELSE IF e < Head(s) THEN <<e>> \o s
       ELSE <<Head(s)>> \o InsertAsc(Tail(s), e)

RECURSIVE sorted(_)
\* Python's sorted() on a list of integers
sorted(s) == IF s = <<>> THEN <<>> ELSE InsertAsc(sorted(SubSeq(s, 1, Len(s) - 1)), s[Len(s)])

(***************************************************************************)
(* The input file: the first line holds N, each further line holds         *)
(* "<orientation> <tagCount> <tag>*".  A line is kept as its fields, so    *)
(* parts[0] is orientation, parts[1] is tagCount and parts[2:] is tokens.  *)
(***************************************************************************)
\* lines 16-18: tags = set(parts[2:]); parts[1] is never read
TagSet(line) == Range(line.tokens)

RECURSIVE ReadLoop(_, _, _, _)
\* lines 15-23: the loop over i in 1..N, carrying photos and vertical_photos
ReadLoop(f, i, ph, vp) ==
  IF i > f.N THEN [photos |-> ph, vertical_photos |-> vp]
  ELSE LET line == f.lines[i] IN
       IF line.orientation = "H"
         THEN ReadLoop(f, i + 1, Append(ph, [indices |-> <<i - 1>>, tags |-> TagSet(line)]), vp)
         ELSE ReadLoop(f, i + 1, ph, Append(vp, [index |-> i - 1, tags |-> TagSet(line)]))

RECURSIVE InsertDescKey(_, _)
\* e goes behind every element whose key is >= its own: a stable descending insert
InsertDescKey(s, e) ==
  IF s = <<>> THEN <<e>>
  ELSE IF Cardinality(Head(s).tags) < Cardinality(e.tags) THEN <<e>> \o s
       ELSE <<Head(s)>> \o InsertDescKey(Tail(s), e)

RECURSIVE InsertAscKey(_, _)
InsertAscKey(s, e) ==
  IF s = <<>> THEN <<e>>
  ELSE IF Cardinality(Head(s).tags) > Cardinality(e.tags) THEN <<e>> \o s
       ELSE <<Head(s)>> \o InsertAscKey(Tail(s), e)

RECURSIVE SortAscending(_)
\* the sort without reverse=True
SortAscending(vp) ==
  IF vp = <<>> THEN <<>>
  ELSE InsertAscKey(SortAscending(SubSeq(vp, 1, Len(vp) - 1)), vp[Len(vp)])

RECURSIVE SortVertical(_)
\* line 25: vertical_photos.sort(key=len(tags), reverse=True); the sort is stable
SortVertical(vp) ==
  IF vp = <<>> THEN <<>>
  ELSE InsertDescKey(SortVertical(SubSeq(vp, 1, Len(vp) - 1)), vp[Len(vp)])

\* a loop that stops one pair early
PairLoopCondLate(vp) == Len(vp) > 2

\* line 26: while len(vertical_photos) > 1
PairLoopCond(vp) == Len(vp) > 1

\* line 29: ([p1[0], p2[0]], p1[1] | p2[1])
PairSlide(p1, p2) == [indices |-> <<p1.index, p2.index>>, tags |-> p1.tags \cup p2.tags]

(***************************************************************************)
(* read_input as steps: the read loop and the sort, each pairing step, the *)
(* return.                                                                 *)
(***************************************************************************)
\* lines 8-25 when every lines[i], i in 1..N, exists
ReadInput ==
  /\ pc = "start"
  /\ file.N <= Len(file.lines)
  /\ LET r == ReadLoop(file, 1, <<>>, <<>>) IN
       /\ photos' = r.photos
       /\ vertical_photos' = SortVertical(r.vertical_photos)
  /\ pc' = "pair"
  /\ UNCHANGED <<file, status, x, u, current, k, slideshow_order, optimal_score,
                 final_score, output>>

\* line 16: lines[i] raises IndexError when the file holds fewer than N photo
\* lines; nothing catches it, the run ends
ReadFail ==
  /\ pc = "start"
  /\ file.N > Len(file.lines)
  /\ pc' = "crashed"
  /\ UNCHANGED <<file, photos, vertical_photos, status, x, u, current, k,
                 slideshow_order, optimal_score, final_score, output>>

\* lines 26-29: one iteration of the pairing loop
PairStep ==
  /\ pc = "pair"
  /\ PairLoopCond(vertical_photos)
  /\ LET n  == Len(vertical_photos)
         p1 == vertical_photos[n]
         p2 == vertical_photos[n - 1]
     IN /\ photos' = Append(photos, PairSlide(p1, p2))
        /\ vertical_photos' = SubSeq(vertical_photos, 1, n - 2)
  /\ UNCHANGED <<file, pc, status, x, u, current, k, slideshow_order, optimal_score,
                 final_score, output>>

\* line 31: return photos (and, in main, line 117: the call of
\* create_optimized_slideshow)
ReadReturn ==
  /\ pc = "pair"
  /\ ~PairLoopCond(vertical_photos)
  /\ pc' = "solve"
  /\ UNCHANGED <<file, photos, vertical_photos, status, x, u, current, k,
                 slideshow_order, optimal_score, final_score, output>>

(***************************************************************************)
(* compute_interest and the tour model of create_optimized_slideshow.      *)
(***************************************************************************)
\* lines 33-35: min(len(tags1 & tags2), len(tags1 - tags2), len(tags2 - tags1))
compute_interest(tags1, tags2) ==
  Min2(Cardinality(tags1 \cap tags2),
       Min2(Cardinality(tags1 \ tags2), Cardinality(tags2 \ tags1)))

\* line 43: S = len(photos)
SlideCount(ph) == Len(ph)

Idx(S) == 0..(S - 1)

\* lines 47-51: the sum of compute_interest(photos[i], photos[j]) * x[i, j]
\* over i != j
Objective(ph, xx) ==
  LET S == SlideCount(ph)
      P == {p \in Idx(S) \X Idx(S) : p[1] # p[2]}
  IN SumOver(P, [p \in P |->
       compute_interest(ph[p[1] + 1].tags, ph[p[2] + 1].tags) * xx[p[1]][p[2]]])

\* lines 54-56: one outgoing and one incoming edge per slide, x[i, i] left out
DegreeOK(xx, S) ==
  \A i \in Idx(S) :
    /\ SumOver(Idx(S) \ {i}, [j \in Idx(S) \ {i} |-> xx[i][j]]) = 1
    /\ SumOver(Idx(S) \ {i}, [j \in Idx(S) \ {i} |-> xx[j][i]]) = 1

\* the subtour constraints with the coefficient S - 1 in place of S
MTZWeak(xx, uu, S) ==
  \A i \in 1..(S - 1) : \A j \in 1..(S - 1) :
    i # j => uu[i] - uu[j] + (S - 1) * xx[i][j] <= S - 1

\* lines 60-63: u[i] - u[j] + S * x[i, j] <= S - 1 for i, j in 1..S-1, i != j
MTZ(xx, uu, S) ==
  \A i \in 1..(S - 1) : \A j \in 1..(S - 1) :
    i # j => uu[i] - uu[j] + S * xx[i][j] <= S - 1

\* line 59: the position variables.  u[0] is in no constraint and is left out.
\* The constraints bound differences of u by integers, so a real solution
\* exists exactly when one exists with integer values in 0..S-1.
URange(S) == [1..(S - 1) -> 0..(S - 1)]

\* the matrix with the single edge i -> f[i] in each row
MatrixOf(f, S) == [i \in Idx(S) |-> [j \in Idx(S) |-> IF f[i] = j THEN 1 ELSE 0]]

\* the 0/1 matrices that satisfy lines 54-56, with x[i, i] = 0: x[i, i] is in no
\* constraint and no objective term, and no line reads it
DegreeMatrices(S) ==
  {xx \in {MatrixOf(f, S) : f \in {g \in [Idx(S) -> Idx(S)] : \A i \in Idx(S) : g[i] # i}} :
     DegreeOK(xx, S)}

MTZFeasible(xx, S) == \E uu \in URange(S) : MTZ(xx, uu, S)

\* the feasible region of the model built by lines 44-63
Tours(S) == {xx \in DegreeMatrices(S) : MTZFeasible(xx, S)}

(***************************************************************************)
(* model.optimize() and lines 67-73: the solver ends with a terminal       *)
(* status.  OPTIMAL carries a maximiser of the objective;                  *)
(* TIME_LIMIT_FEASIBLE is GRB.TIME_LIMIT with an incumbent;                *)
(* NO_SOLUTION is GRB.TIME_LIMIT without one.                              *)
(***************************************************************************)
\* line 67: model.Status == GRB.OPTIMAL
UsableStatus(st) == st = "OPTIMAL"

\* lines 65-73 for a terminal status st and solution values xx
SolverReturns(st, xx) ==
  /\ status' = st
  /\ x' = xx
  /\ IF UsableStatus(st)
       THEN /\ pc' = "extract"
            /\ UNCHANGED <<slideshow_order, optimal_score>>
       ELSE /\ pc' = "main_check"
            /\ slideshow_order' = <<>>
            /\ optimal_score' = 0
  /\ current' = 0
  /\ k' = 0
  /\ UNCHANGED <<file, photos, vertical_photos, u, final_score, output>>

SolveOptimal ==
  /\ pc = "solve"
  /\ \E xx \in Tours(SlideCount(photos)) :
    /\ \A yy \in Tours(SlideCount(photos)) : Objective(photos, yy) <= Objective(photos, xx)
    /\ SolverReturns("OPTIMAL", xx)

SolveTimeLimitFeasible ==
  /\ pc = "solve"
  /\ \E xx \in Tours(SlideCount(photos)) : SolverReturns("TIME_LIMIT_FEASIBLE", xx)

SolveNoSolution ==
  /\ pc = "solve"
  /\ Tours(SlideCount(photos)) # {}
  /\ SolverReturns("NO_SOLUTION", NoX)

SolveInfeasible ==
  /\ pc = "solve"
  /\ Tours(SlideCount(photos)) = {}
  /\ SolverReturns("INFEASIBLE", NoX)

(***************************************************************************)
(* extract_slideshow_from_gurobi.                                          *)
(***************************************************************************)
\* the inner loop without the test current != j
NextSlideAnyJ(xx, cur, S) ==
  LET J == {j \in Idx(S) : xx[cur][j] = 1}
  IN IF J = {} THEN cur ELSE CHOOSE j \in J : \A j2 \in J : j <= j2

\* lines 83-86: the first j with current != j and x[current, j].X > 0.5; current
\* keeps its value when there is none
NextSlide(xx, cur, S) ==
  LET J == {j \in Idx(S) : cur # j /\ xx[cur][j] = 1}
  IN IF J = {} THEN cur ELSE CHOOSE j \in J : \A j2 \in J : j <= j2

\* lines 80-86: one iteration of for _ in range(S)
ExtractStep ==
  /\ pc = "extract"
  /\ k < SlideCount(photos)
  /\ slideshow_order' = Append(slideshow_order, sorted(photos[current + 1].indices))
  /\ current' = NextSlide(x, current, SlideCount(photos))
  /\ k' = k + 1
  /\ UNCHANGED <<file, pc, photos, vertical_photos, status, x, u, optimal_score,
                 final_score, output>>

\* line 88 and line 70: return slideshow_order, then slideshow, model.ObjVal
ExtractReturn ==
  /\ pc = "extract"
  /\ k = SlideCount(photos)
  /\ optimal_score' = Objective(photos, x)
  /\ pc' = "main_check"
  /\ UNCHANGED <<file, photos, vertical_photos, status, x, u, current, k,
                 slideshow_order, final_score, output>>

(***************************************************************************)
(* main: photos_dict, analyze_transitions, write_output.                   *)
(***************************************************************************)
\* line 115: {tuple(sorted(photo[0])): photo[1] for photo in photos}; a later
\* photo with the same key replaces an earlier one
photos_dict(ph) ==
  [key \in {sorted(ph[n].indices) : n \in 1..Len(ph)} |->
     LET n == CHOOSE n \in 1..Len(ph) :
                /\ sorted(ph[n].indices) = key
                /\ \A m \in 1..Len(ph) : sorted(ph[m].indices) = key => m <= n
     IN ph[n].tags]

\* the sum with the pair (last, first) added
analyze_transitions_closed(order, dict) ==
  LET I == 1..Len(order)
  IN SumOver(I, [i \in I |-> compute_interest(dict[order[i]], dict[order[(i % Len(order)) + 1]])])

\* lines 90-99: the sum over i in range(len(slideshow_order) - 1)
analyze_transitions(order, dict) ==
  LET I == 1..(Len(order) - 1)
  IN SumOver(I, [i \in I |-> compute_interest(dict[order[i]], dict[order[i + 1]])])

\* lines 101-106: the count line, then one line per slide
write_output(order) == [count |-> Len(order), slides |-> order]

\* lines 109-111: a wrong number of arguments
Usage ==
  /\ pc = "start"
  /\ pc' = "usage"
  /\ UNCHANGED <<file, photos, vertical_photos, status, x, u, current, k,
                 slideshow_order, optimal_score, final_score, output>>

\* the test of line 119 always taken
HasOrderAlways(order) == TRUE

\* line 119: if slideshow_order
HasOrder(order) == order # <<>>

\* lines 119-123
MainWrite ==
  /\ pc = "main_check"
  /\ HasOrder(slideshow_order)
  /\ final_score' = analyze_transitions(slideshow_order, photos_dict(photos))
  /\ output' = <<write_output(slideshow_order)>>
  /\ pc' = "written"
  /\ UNCHANGED <<file, photos, vertical_photos, status, x, u, current, k,
                 slideshow_order, optimal_score>>

\* lines 124-125
MainNoSolution ==
  /\ pc = "main_check"
  /\ ~HasOrder(slideshow_order)
  /\ pc' = "no_solution"
  /\ UNCHANGED <<file, photos, vertical_photos, status, x, u, current, k,
                 slideshow_order, optimal_score, final_score, output>>

(***************************************************************************)
(* Input files.                                                            *)
(***************************************************************************)
Orientations == {"H", "V"}

\* token lists of the files given to read_input alone: two tags, with a
\* repeated tag among them
RawTokens == {<<>>, <<"a">>, <<"b">>, <<"a", "b">>, <<"a", "a">>}

\* a photo line whose declared tag count is right, or one too large
RawLines ==
  {l \in [orientation : Orientations, tagCount : 0..3, tokens : RawTokens] :
     l.tagCount \in {Len(l.tokens), Len(l.tokens) + 1}}

RawFiles == [N : 0..(MaxRawLines + 1), lines : SeqsUpTo(RawLines, MaxRawLines)]

NothingSolved ==
  /\ vertical_photos = <<>>
  /\ status = NoStatus
  /\ x = NoX
  /\ u = NoU
  /\ current = 0
  /\ k = 0
  /\ slideshow_order = <<>>
  /\ optimal_score = 0
  /\ final_score = 0
  /\ output = NoFile

Blank ==
  /\ photos = <<>>
  /\ NothingSolved

InitRead ==
  /\ file \in RawFiles
  /\ pc = "start"
  /\ Blank

NextRead == ReadInput \/ ReadFail \/ PairStep \/ ReadReturn

SpecRead == InitRead /\ [][NextRead]_vars

(***************************************************************************)
(* A whole run of main on an input file.                                   *)
(***************************************************************************)
\* token lists of the files of a whole run: three tags, so that two slides
\* can share a tag and each keep one of its own
RunTokens == {<<"a">>, <<"a", "b">>, <<"b", "c">>, <<"c", "a">>}

RunLines ==
  {l \in [orientation : Orientations, tagCount : 0..2, tokens : RunTokens] :
     l.tagCount = Len(l.tokens)}

RunFiles == [N : 0..(MaxPhotos + 1), lines : SeqsUpTo(RunLines, MaxPhotos)]

Init ==
  /\ file \in RunFiles
  /\ pc = "start"
  /\ Blank

Next ==
  \/ Usage
  \/ ReadInput
  \/ ReadFail
  \/ PairStep
  \/ ReadReturn
  \/ SolveOptimal
  \/ SolveTimeLimitFeasible
  \/ SolveNoSolution
  \/ SolveInfeasible
  \/ ExtractStep
  \/ ExtractReturn
  \/ MainWrite
  \/ MainNoSolution

Spec == Init /\ [][Next]_vars

(***************************************************************************)
(* extract_slideshow_from_gurobi alone, on any 0/1 matrix x.               *)
(***************************************************************************)
\* S slides: horizontal photos 0..S-2, then one pair in the order the pairing
\* loop leaves it (the later photo first)
ExtractPhotos(S) ==
  [n \in 1..S |-> IF n < S THEN [indices |-> <<n - 1>>, tags |-> {}]
                  ELSE [indices |-> <<S, S - 1>>, tags |-> {}]]

InitExtract ==
  /\ \E S \in 0..MaxS :
       /\ photos = ExtractPhotos(S)
       /\ x \in [Idx(S) -> [Idx(S) -> {0, 1}]]
  /\ file = [N |-> 0, lines |-> <<>>]
  /\ pc = "extract"
  /\ vertical_photos = <<>>
  /\ status = "OPTIMAL"
  /\ u = NoU
  /\ current = 0
  /\ k = 0
  /\ slideshow_order = <<>>
  /\ optimal_score = 0
  /\ final_score = 0
  /\ output = NoFile

NextExtract == ExtractStep \/ ExtractReturn

SpecExtract == InitExtract /\ [][NextExtract]_vars

(***************************************************************************)
(* The constraints of the tour model alone: the solver fixes the edges x   *)
(* under the degree constraints, then positions u, and keeps the           *)
(* assignment when every MTZ constraint holds.                             *)
(***************************************************************************)
\* model.optimize(): an assignment of x that satisfies lines 54-56
BranchX ==
  /\ pc = "branch"
  /\ x' \in DegreeMatrices(SlideCount(photos))
  /\ pc' = "relax"
  /\ UNCHANGED <<file, photos, vertical_photos, status, u, current, k,
                 slideshow_order, optimal_score, final_score, output>>

\* model.optimize(): values for the position variables of line 59
AssignU ==
  /\ pc = "relax"
  /\ u' \in URange(SlideCount(photos))
  /\ pc' = "candidate"
  /\ UNCHANGED <<file, photos, vertical_photos, status, x, current, k,
                 slideshow_order, optimal_score, final_score, output>>

\* the candidate satisfies lines 60-63: a feasible solution
Accept ==
  /\ pc = "candidate"
  /\ MTZ(x, u, SlideCount(photos))
  /\ pc' = "incumbent"
  /\ UNCHANGED <<file, photos, vertical_photos, status, x, u, current, k,
                 slideshow_order, optimal_score, final_score, output>>

\* the candidate violates a constraint of lines 60-63
Reject ==
  /\ pc = "candidate"
  /\ ~MTZ(x, u, SlideCount(photos))
  /\ pc' = "rejected"
  /\ UNCHANGED <<file, photos, vertical_photos, status, x, u, current, k,
                 slideshow_order, optimal_score, final_score, output>>

InitMTZ ==
  /\ \E S \in 0..MaxNodes : photos = ExtractPhotos(S)
  /\ file = [N |-> 0, lines |-> <<>>]
  /\ pc = "branch"
  /\ NothingSolved

NextMTZ == BranchX \/ AssignU \/ Accept \/ Reject

SpecMTZ == InitMTZ /\ [][NextMTZ]_vars

(***************************************************************************)
(* Definitions the properties are stated with.                             *)
(***************************************************************************)
S == SlideCount(photos)

\* the key of slide i: what the extractor emits for it
KeyOf(i) == sorted(photos[i + 1].indices)

\* the slide an emitted entry stands for
SlideOf(key) == CHOOSE i \in Idx(S) : KeyOf(i) = key

RECURSIVE ReachFrom(_, _, _)
\* the slides reached from the set R along activated edges i -> j, i # j
ReachFrom(xx, V, R) ==
  LET R2 == R \cup {j \in V : \E i \in R : i # j /\ xx[i][j] = 1}
  IN IF R2 = R THEN R ELSE ReachFrom(xx, V, R2)

\* the activated edges form one cycle through all slides
SingleCycle(xx, n) == DegreeOK(xx, n) /\ ReachFrom(xx, Idx(n), {0}) = Idx(n)

\* some cycle of activated edges stays within slides 1..n-1
CycleAvoiding0(xx, n) ==
  \E c \in 1..(n - 1) :
    \E d \in 1..(n - 1) :
      /\ c # d
      /\ xx[c][d] = 1
      /\ c \in ReachFrom(xx, 1..(n - 1), {d})

RECURSIVE WalkAt(_, _, _)
\* the value of current at the start of iteration n of the extraction loop
WalkAt(xx, n, step) == IF step = 0 THEN 0 ELSE NextSlide(xx, WalkAt(xx, n, step - 1), n)

\* no j # cur has x[cur][j] set
NoOutgoing(xx, cur, n) == \A j \in Idx(n) : j # cur => xx[cur][j] = 0

\* the walk stands, at an iteration before the last, on a slide without
\* activated outgoing edge
WalkHitsDeadEnd(xx, n) == \E step \in 0..(n - 2) : NoOutgoing(xx, WalkAt(xx, n, step), n)

Terminal == pc \in {"written", "no_solution", "crashed", "usage"}

\* the tags of the photo with index i, as read_input reads them
PhotoTags(i) == TagSet(file.lines[i + 1])

TagCount(i) == Cardinality(PhotoTags(i))

\* the indices of the vertical photos among the N photos read
VerticalIndices == {i \in 0..(file.N - 1) : file.lines[i + 1].orientation # "H"}

\* the positions in photos of the two-photo slides
PairSlides == {n \in 1..Len(photos) : Len(photos[n].indices) = 2}

InPair(n) == Range(photos[n].indices)

\* the input disagrees with its own counts
Malformed ==
  \/ file.N # Len(file.lines)
  \/ \E i \in 1..Min2(file.N, Len(file.lines)) :
       file.lines[i].tagCount # Len(file.lines[i].tokens)

(***************************************************************************)
(* Properties.                                                             *)
(***************************************************************************)
\* C1: when x satisfies the degree constraints and its edges form one cycle
\* through all S >= 2 slides, the extractor returns S entries, the first is
\* slide 0, every slide is emitted exactly once, and every consecutive pair
\* (a, b) of emitted slides has x[a][b] set.
C1_ExtractedTour ==
  (pc = "main_check" /\ S >= 2 /\ SingleCycle(x, S)) =>
    /\ Len(slideshow_order) = S
    /\ slideshow_order[1] = KeyOf(0)
    /\ \A i \in Idx(S) :
         Cardinality({n \in 1..Len(slideshow_order) : slideshow_order[n] = KeyOf(i)}) = 1
    /\ \A n \in 1..(S - 1) :
         x[SlideOf(slideshow_order[n])][SlideOf(slideshow_order[n + 1])] = 1

\* a tour of three slides, with a diagonal entry set, has been extracted
C1_Witness ==
  /\ pc = "main_check"
  /\ S = 3
  /\ SingleCycle(x, S)
  /\ x[0][0] = 1
  /\ Len(slideshow_order) = 3

\* C2: when the walk stands on a slide without activated outgoing edge, the
\* extractor returns no order (it reports an error instead).
C2_DeadEndIsReported ==
  (pc = "main_check" /\ status = "OPTIMAL" /\ WalkHitsDeadEnd(x, S)) =>
    slideshow_order = <<>>

\* C3: a run whose solver ended with a feasible solution at the time limit
\* ends with a non-empty order and a written output.
C3_TimeLimitIsUsable ==
  (Terminal /\ status = "TIME_LIMIT_FEASIBLE" /\ S >= 2) =>
    /\ pc = "written"
    /\ slideshow_order # <<>>
    /\ output # NoFile

\* C4: a run on a single slide writes that slide with count 1, reports score 0
\* and solves no model.
C4_SingleSlide ==
  (Terminal /\ pc # "usage" /\ pc # "crashed" /\ S = 1) =>
    /\ pc = "written"
    /\ output = <<[count |-> 1, slides |-> <<KeyOf(0)>>]>>
    /\ final_score = 0
    /\ status = NoStatus

\* C5: after INFEASIBLE or NO_SOLUTION nothing is written and the run is on
\* the no-solution path; an output exists only after the whole tour was
\* extracted from a solved model.
C5_NoSolutionNoOutput ==
  /\ status \in {"INFEASIBLE", "NO_SOLUTION"} =>
       /\ output = NoFile
       /\ pc \in {"main_check", "no_solution"}
  /\ output # NoFile =>
       /\ pc = "written"
       /\ status = "OPTIMAL"
       /\ k = S
       /\ Len(slideshow_order) = S
       /\ output = <<[count |-> S, slides |-> slideshow_order]>>

\* a run ended on the no-solution path after the solver found the model infeasible
C5_Witness ==
  /\ pc = "no_solution"
  /\ status = "INFEASIBLE"
  /\ S = 1

\* C6: read_input never gets past a file whose N differs from its number of
\* photo lines or whose declared tag count differs from a line's tokens.
C6_MalformedIsRejected ==
  Malformed => pc \in {"start", "crashed"}

\* C7: read_input returns floor(V/2) two-photo slides of distinct vertical
\* photos, no vertical photo is in two of them, and the vertical photos in
\* none number 0 when V is even and 1 when V is odd.
C7_PairCount ==
  pc = "solve" =>
    LET V      == Cardinality(VerticalIndices)
        paired == UNION {InPair(n) : n \in PairSlides}
    IN /\ Cardinality(PairSlides) = V \div 2
       /\ \A n \in PairSlides : Cardinality(InPair(n)) = 2 /\ InPair(n) \subseteq VerticalIndices
       /\ \A n \in PairSlides : \A m \in PairSlides : n # m => InPair(n) \cap InPair(m) = {}
       /\ Cardinality(VerticalIndices \ paired) = V % 2

\* read_input returned from a file with three vertical photos
C7_Witness ==
  /\ pc = "solve"
  /\ Cardinality(VerticalIndices) = 3
  /\ Cardinality(PairSlides) = 1

\* C8: under the degree constraints, positions u that satisfy every MTZ
\* constraint exist exactly when the edges form one cycle through all S >= 2
\* slides; a feasible assignment has no cycle that avoids slide 0.
C8_MTZSingleCycle ==
  /\ (pc = "relax" /\ S >= 2) => (MTZFeasible(x, S) <=> SingleCycle(x, S))
  /\ (pc = "candidate" /\ S >= 2 /\ MTZ(x, u, S)) => SingleCycle(x, S)
  /\ (pc = "incumbent" /\ S >= 2) => SingleCycle(x, S) /\ ~CycleAvoiding0(x, S)

\* the solver rejected positions for edges that form two cycles, one of them
\* avoiding slide 0
C8_Witness ==
  /\ pc = "rejected"
  /\ S = 4
  /\ CycleAvoiding0(x, S)
  /\ ~SingleCycle(x, S)

\* C9: every two-photo slide comes after all one-photo slides, holds the union
\* of its two photos' tags, and its two photos have the smallest tag counts
\* among the vertical photos not paired before it; when one vertical photo
\* is left over at the return, none has more tags than it.
C9_SmallestFirst ==
  pc \in {"pair", "solve"} =>
    /\ \A n \in PairSlides : \A m \in 1..Len(photos) : m \notin PairSlides => m < n
    /\ \A n \in PairSlides :
         photos[n].tags = PhotoTags(photos[n].indices[1]) \cup PhotoTags(photos[n].indices[2])
    /\ \A n \in PairSlides :
         LET later == UNION {InPair(m) : m \in {m2 \in PairSlides : m2 > n}}
                        \cup {vertical_photos[q].index : q \in 1..Len(vertical_photos)}
         IN \A a \in InPair(n) : \A v \in later : TagCount(a) <= TagCount(v)
    /\ (pc = "solve" /\ Len(vertical_photos) = 1) =>
         \A v \in VerticalIndices : TagCount(v) <= TagCount(vertical_photos[1].index)

\* a pair was made while a vertical photo with more tags stays unpaired
C9_Witness ==
  /\ pc = "solve"
  /\ Len(vertical_photos) = 1
  /\ PairSlides # {}
  /\ \E n \in PairSlides : \A a \in InPair(n) : TagCount(a) < TagCount(vertical_photos[1].index)

\* C10: the final score is the sum of the interests of the S-1 consecutive
\* pairs of the emitted order; it is the closed-tour objective less the
\* interest of the edge from the last emitted slide back to slide 0, and
\* never more than the objective.
C10_OpenPathScore ==
  pc = "written" =>
    LET I    == 1..(S - 1)
        tags == [n \in 1..S |-> photos[SlideOf(slideshow_order[n]) + 1].tags]
    IN /\ Len(slideshow_order) = S
       /\ final_score = SumOver(I, [n \in I |-> compute_interest(tags[n], tags[n + 1])])
       /\ final_score = optimal_score - compute_interest(tags[S], photos[1].tags)
       /\ final_score <= optimal_score

\* a written run of three slides whose closing edge has interest
C10_Witness ==
  /\ pc = "written"
  /\ S = 3
  /\ final_score = 2
  /\ optimal_score = 3

====
